---- MODULE Spec2Model ----
(***************************************************************************)
(* A model of the plate-recognition backend:                               *)
(*   - backend/database.py        the two-tier deduplication (plate_cache  *)
(*                                in memory, table `plates` in SQLite);    *)
(*   - backend/camera_manager.py  CameraManager, owner of the capture      *)
(*                                handle;                                  *)
(*   - backend/app.py             the control_stream handlers, the         *)
(*                                settings endpoints and the video         *)
(*                                processing loop.                         *)
(* Time is counted in ticks of 1/TicksPerSec second: datetime.now() has    *)
(* sub-second resolution while the timestamps written to the table are     *)
(* formatted with strftime("%Y-%m-%d %H:%M:%S"), i.e. cut to whole seconds.*)
(***************************************************************************)
EXTENDS Integers, Sequences, FiniteSets, TLC

\* ------------------------------------------------------------------ bounds
TicksPerSec == 2
MaxAdvances == 2
MaxRows == 2
MaxCaps == 2
MaxThreads == 2
MaxHandlers == 2
MaxDetections == 2
MaxConfusions == 2

\* ------------------------------------------------------- program constants
SweepHorizon == 60
SecondsPerDay == 86400
DefaultWindow == 30
WindowMin == 5
WindowMax == 300
MaxFrameWidth == 800
MinCleanedLen == 5
MaxCleanedLen == 9
MaxPlateLen == 8
FormattedLen == 6
DashPosition == 3

None == "None"

\* current_cap = None: no VideoCapture object.
NoCap == 0

\* processing_thread = None: no thread was started yet.
NoThread == 0

Threads == 1..MaxThreads
Handlers == 1..MaxHandlers

\* The locals of a thread that is not running the loop.  failed records that
\* the get_frame of the iteration just ended returned (False, None): "read"
\* after a read that failed (line 67), "closed" without a read (line 80);
\* "select" records that the loop left its body after a failed select_source.
\* frame records the source the frame of the iteration was read from.
IdleLoop == [pc |-> "unborn", cap |-> NoCap, src |-> None, detected |-> << >>,
             added |-> << >>, failed |-> "no", released |-> FALSE, notified |-> FALSE,
             frame |-> None]

IdleHandler == [pc |-> "idle", src |-> None]

\* CAMERA_SOURCES of config.py: the configured source names.
CAMERA_SOURCES == {"webcam", "ip_cam_cellphone"}

\* Plate texts handed to add_plate_reading: a canonical code and the empty text.
PlateTexts == {"ABC-123", ""}

\* Values a settings request may carry for the window (in and out of range).
WindowRequests == {WindowMin - 1, WindowMin, DefaultWindow, SweepHorizon + WindowMin,
                   WindowMax, WindowMax + 1}

\* Python types the JSON field deduplication_time may arrive as; a bool is an
\* int in Python (True = 1, False = 0), a float, a string and None are not.
IntTypes == {"int", "bool"}
OtherTypes == {"float", "str", "NoneType"}

\* The values of new_time in a settings request: integers in and out of
\* range, True, and values of the other types (their number is what the
\* request carried, e.g. 30.0 or "30"; None carries none).
SettingsRequests ==
  {[type |-> "int", value |-> w] : w \in WindowRequests}
    \cup {[type |-> "bool", value |-> 1]}
    \cup {[type |-> y, value |-> DefaultWindow] : y \in OtherTypes}

\* Clock advances, in ticks: a minimal window less one tick, a minimal window,
\* and one second more than the sweep horizon.
Deltas == {WindowMin * TicksPerSec - 1, WindowMin * TicksPerSec,
           (SweepHorizon + 1) * TicksPerSec}

VARIABLES
  now,                 \* datetime.now(), in ticks
  advances,            \* how many times the clock has advanced
  plate_cache,         \* database.plate_cache: cache_key -> datetime (ticks)
  plates,              \* rows of table plates: [plate_text, camera_source, timestamp (s)],
                       \* each with the instant (ticks) of the call that inserted it
  deduplication_time,  \* app.deduplication_time (seconds)
  lastCall             \* the last database call and what it returned

dedupVars == <<now, advances, plate_cache, plates, deduplication_time, lastCall>>

VARIABLES
  active_source,       \* CameraManager.active_source: None or a source name
  current_cap,         \* CameraManager.current_cap: NoCap or a VideoCapture object
  opened,              \* the VideoCapture objects whose isOpened() is true
  reachable,           \* the sources whose endpoint cv2.VideoCapture can open
  lastCam              \* the last CameraManager call and what it returned

camVars == <<active_source, current_cap, opened, reachable, lastCam>>

VARIABLES
  processing_active,     \* app.processing_active
  active_camera_source,  \* app.active_camera_source: the source the loop is to use
  processing_thread,     \* app.processing_thread: NoThread or the last thread started
  loops,                 \* the threads running video_processing_loop: position and locals
  handlers               \* the 'start' handlers in flight: position and requested source

loopVars == <<processing_active, active_camera_source, processing_thread, loops, handlers>>

VARIABLES
  raw_text,   \* the text an OCR engine returned, as a sequence of characters
  lastOcr     \* the last ocr_processor function applied to it and its result

ocrVars == <<raw_text, lastOcr>>

VARIABLE
  calls       \* the calls of add_plate_reading and get_cache_stats in flight:
              \* per caller, the position in the function and its locals

vars == <<dedupVars, camVars, loopVars, ocrVars, calls>>

\* ------------------------------------------------------------ database.py

\* strftime("%Y-%m-%d %H:%M:%S") of a datetime: its whole seconds.
Strftime(t) == t \div TicksPerSec

\* timedelta.seconds of a non-negative timedelta of d ticks: the seconds field,
\* without the days and without the microseconds.
TimedeltaSeconds(d) == (d \div TicksPerSec) % SecondsPerDay

\* timedelta.total_seconds() < dedup_seconds, both sides scaled to ticks.
TotalSecondsBelow(d, dedup_seconds) == d < dedup_seconds * TicksPerSec

\* A cache key made of the plate text alone.
CacheKey_PlateOnly(plate_text, camera_source) == plate_text

\* f"{plate_text}_{camera_source}"
CacheKey(plate_text, camera_source) == plate_text \o "_" \o camera_source

\* cleanup_cache(): drops the keys whose age has a seconds field above 60.
CleanupCache(cache, t) ==
  LET expired_keys == {k \in DOMAIN cache : TimedeltaSeconds(t - cache[k]) > SweepHorizon}
  IN  [k \in (DOMAIN cache) \ expired_keys |-> cache[k]]

\* plate_cache[cache_key] = current_time
CachePut(cache, key, t) ==
  [k \in (DOMAIN cache) \cup {key} |-> IF k = key THEN t ELSE cache[k]]

\* A query that compares the wrong way round: timestamp < ?
RecentRows_Flipped(rows, plate_text, camera_source, dedup_seconds, t) ==
  {r \in rows : /\ r.plate_text = plate_text
                /\ r.camera_source = camera_source
                /\ r.timestamp < Strftime(t - dedup_seconds * TicksPerSec)}

\* SELECT COUNT(*) FROM plates WHERE plate_text = ? AND camera_source = ?
\*   AND timestamp > ?   with ? = strftime(current_time - timedelta(seconds))
RecentRows(rows, plate_text, camera_source, dedup_seconds, t) ==
  {r \in rows : /\ r.plate_text = plate_text
                /\ r.camera_source = camera_source
                /\ r.timestamp > Strftime(t - dedup_seconds * TicksPerSec)}

\* The timestamp written to plate_cache when the table already holds a recent
\* row of the plate (database.py line 136).
BackfillTimestamp(rows, plate_text, camera_source, dedup_seconds, t) == t

\* An add_plate_reading that refreshes the timestamp of an entry it rejects by.
AddPlateReading_Refresh(plate_text, camera_source, dedup_seconds, storeFails, cache0, rows, t) ==
  IF plate_text = ""
  THEN [result |-> FALSE, cache |-> cache0, rows |-> rows, path |-> "empty"]
  ELSE
    LET cache == CleanupCache(cache0, t)
        key   == CacheKey(plate_text, camera_source)
    IN  IF key \in DOMAIN cache /\ TotalSecondsBelow(t - cache[key], dedup_seconds)
        THEN [result |-> FALSE, cache |-> CachePut(cache, key, t), rows |-> rows,
              path |-> "cache"]
        ELSE IF storeFails
        THEN [result |-> FALSE, cache |-> cache, rows |-> rows, path |-> "error"]
        ELSE IF /\ key \notin DOMAIN cache
                /\ RecentRows(rows, plate_text, camera_source, dedup_seconds, t) # {}
        THEN [result |-> FALSE,
              cache  |-> CachePut(cache, key,
                           BackfillTimestamp(rows, plate_text, camera_source, dedup_seconds, t)),
              rows   |-> rows, path |-> "db"]
        ELSE [result |-> TRUE,
              cache  |-> CachePut(cache, key, t),
              rows   |-> rows \cup {[plate_text |-> plate_text,
                                     camera_source |-> camera_source,
                                     timestamp |-> Strftime(t), at |-> t]},
              path   |-> "insert"]

\* add_plate_reading(plate_text, camera_source, ..., dedup_seconds) called at
\* time t with the cache and the rows as given; storeFails: sqlite3 raises
\* (connect, SELECT, INSERT or commit).  The result, the cache and the rows
\* it leaves, and the branch taken.
AddPlateReading(plate_text, camera_source, dedup_seconds, storeFails, cache0, rows, t) ==
  IF plate_text = ""
  THEN [result |-> FALSE, cache |-> cache0, rows |-> rows, path |-> "empty"]
  ELSE
    LET cache == CleanupCache(cache0, t)
        key   == CacheKey(plate_text, camera_source)
    IN  IF key \in DOMAIN cache /\ TotalSecondsBelow(t - cache[key], dedup_seconds)
        THEN [result |-> FALSE, cache |-> cache, rows |-> rows, path |-> "cache"]
        ELSE IF storeFails
        THEN [result |-> FALSE, cache |-> cache, rows |-> rows, path |-> "error"]
        ELSE IF /\ key \notin DOMAIN cache
                /\ RecentRows(rows, plate_text, camera_source, dedup_seconds, t) # {}
        THEN [result |-> FALSE,
              cache  |-> CachePut(cache, key,
                           BackfillTimestamp(rows, plate_text, camera_source, dedup_seconds, t)),
              rows   |-> rows, path |-> "db"]
        ELSE [result |-> TRUE,
              cache  |-> CachePut(cache, key, t),
              rows   |-> rows \cup {[plate_text |-> plate_text,
                                     camera_source |-> camera_source,
                                     timestamp |-> Strftime(t), at |-> t]},
              path   |-> "insert"]

\* DELETE FROM plates WHERE plate_text = ? AND timestamp = ?   (timestamp given)
\* DELETE FROM plates WHERE id = (SELECT id ... ORDER BY timestamp DESC LIMIT 1)
\* given: whether the request carries a timestamp.
DeletePlateRows(rows, plate_text, given, timestamp) ==
  IF given
  THEN {r \in rows : ~(r.plate_text = plate_text /\ r.timestamp = timestamp)}
  ELSE LET mine == {r \in rows : r.plate_text = plate_text}
       IN  IF mine = {} THEN rows
           ELSE rows \ {CHOOSE r \in mine : \A q \in mine : q.timestamp <= r.timestamp}

NoCall == [op |-> "none"]

\* Who calls into the cache: the processing loop (add_plate_reading) and a
\* request handler (get_cache_stats).
Callers == {"loop", "request"}

\* The locals of a caller that is in neither function.  live: the dict its
\* items() view iterates is the one plate_cache is bound to; snap: that dict's
\* contents, once plate_cache has been rebound; used and keys0: its size and
\* keys when the iteration began; seen: the keys the iteration has yielded.
IdleCall ==
  [pc |-> "idle", op |-> "none", live |-> TRUE, snap |-> << >>, used |-> 0, keys0 |-> {},
   seen |-> {}, expired_keys |-> {}, current_time |-> 0, plate_text |-> "",
   camera_source |-> None, dedup_seconds |-> 0, error |-> "none"]

\* `plate_cache = {}` rebinds the global: an iteration in flight keeps the dict
\* it began on, which nothing changes any more.
Detached(call, cache) ==
  IF call.pc = "iterate" /\ call.live
  THEN [call EXCEPT !.live = FALSE, !.snap = cache]
  ELSE call

\* Whether the table holds a row of (plate_text, camera_source) that the store
\* compares as newer than t - dedup_seconds: what a deduplicator deciding from
\* the persisted store alone would see.
StoreHoldsRecent(rows, plate_text, camera_source, dedup_seconds, t) ==
  \E r \in rows : /\ r.plate_text = plate_text
                  /\ r.camera_source = camera_source
                  /\ r.timestamp > (t - dedup_seconds * TicksPerSec) \div TicksPerSec

Init ==
  /\ now = 0
  /\ advances = 0
  /\ plate_cache = << >>
  /\ plates = {}
  /\ deduplication_time = DefaultWindow
  /\ lastCall = NoCall
  /\ active_source = None
  /\ current_cap = NoCap
  /\ opened = {}
  /\ reachable = CAMERA_SOURCES
  /\ lastCam = [op |-> "none"]
  /\ processing_active = FALSE
  /\ active_camera_source = "webcam"
  /\ processing_thread = NoThread
  /\ loops = [t \in Threads |-> IdleLoop]
  /\ handlers = [h \in Handlers |-> IdleHandler]
  /\ raw_text = << >>
  /\ lastOcr = [op |-> "none"]
  /\ calls = [c \in Callers |-> IdleCall]

\* The clock advances.
Tick(d) ==
  /\ advances < MaxAdvances
  /\ advances' = advances + 1
  /\ now' = now + d
  /\ lastCall' = NoCall
  /\ UNCHANGED <<plate_cache, plates, deduplication_time, camVars, loopVars, ocrVars, calls>>

\* add_plate_reading as the processing loop calls it: with the configured window.
AddPlateReadingCall(plate_text, camera_source, storeFails) ==
  LET r == AddPlateReading(plate_text, camera_source, deduplication_time, storeFails,
                           plate_cache, plates, now)
      key == CacheKey(plate_text, camera_source)
  IN  /\ Cardinality(r.rows) <= MaxRows
      /\ plate_cache' = r.cache
      /\ plates' = r.rows
      /\ lastCall' = [op |-> "add", key |-> key, result |-> r.result, path |-> r.path,
                      plate_text |-> plate_text, camera_source |-> camera_source,
                      stored |-> StoreHoldsRecent(plates, plate_text, camera_source,
                                                  deduplication_time, now),
                      afterClear |-> (lastCall.op = "clear" /\ lastCall.key = key)]
      /\ UNCHANGED <<now, advances, deduplication_time, camVars, loopVars, ocrVars, calls>>

\* A clear_dedup_cache that also empties the plates table.
ClearDedupCache_AlsoStore ==
  /\ plate_cache' = << >>
  /\ plates' = {}
  /\ calls' = [c \in Callers |-> Detached(calls[c], plate_cache)]
  /\ lastCall' = [op |-> "clear",
                  key |-> IF lastCall.op = "add" /\ lastCall.path \in {"cache", "db"}
                          THEN lastCall.key ELSE None]
  /\ UNCHANGED <<now, advances, deduplication_time, camVars, loopVars, ocrVars>>

\* clear_dedup_cache()
ClearDedupCache ==
  /\ plate_cache' = << >>
  /\ calls' = [c \in Callers |-> Detached(calls[c], plate_cache)]
  /\ lastCall' = [op |-> "clear",
                  key |-> IF lastCall.op = "add" /\ lastCall.path \in {"cache", "db"}
                          THEN lastCall.key ELSE None]
  /\ UNCHANGED <<now, advances, plates, deduplication_time, camVars, loopVars, ocrVars>>

\* get_cache_stats(): cleanup_cache(), then the size and the keys.
GetCacheStats ==
  /\ plate_cache' = CleanupCache(plate_cache, now)
  /\ lastCall' = NoCall
  /\ UNCHANGED <<now, advances, plates, deduplication_time, camVars, loopVars, ocrVars, calls>>

\* clear_all_plates()
ClearAllPlates ==
  /\ plates' = {}
  /\ lastCall' = NoCall
  /\ UNCHANGED <<now, advances, plate_cache, deduplication_time, camVars, loopVars, ocrVars, calls>>

\* delete_plate(plate_text, timestamp)
DeletePlate(plate_text, given, timestamp) ==
  /\ plates' = DeletePlateRows(plates, plate_text, given, timestamp)
  /\ lastCall' = NoCall
  /\ UNCHANGED <<now, advances, plate_cache, deduplication_time, camVars, loopVars, ocrVars, calls>>

\* A settings test that leaves out isinstance(new_time, int).
Refused_RangeOnly(new_time) ==
  new_time.value < WindowMin \/ new_time.value > WindowMax

\* not isinstance(new_time, int) or new_time < 5 or new_time > 300
Refused(new_time) ==
  \/ new_time.type \notin IntTypes
  \/ new_time.value < WindowMin
  \/ new_time.value > WindowMax

\* POST /api/settings/deduplication
DeduplicationSettings(new_time) ==
  /\ deduplication_time' = IF Refused(new_time) THEN deduplication_time ELSE new_time.value
  /\ lastCall' = [op |-> "settings", integer |-> new_time.type = "int",
                  inRange |-> new_time.value \in WindowMin..WindowMax,
                  success |-> ~Refused(new_time)]
  /\ UNCHANGED <<now, advances, plate_cache, plates, camVars, loopVars, ocrVars, calls>>

NextDedup ==
  \/ \E d \in Deltas : Tick(d)
  \/ \E p \in PlateTexts, s \in CAMERA_SOURCES, f \in BOOLEAN : AddPlateReadingCall(p, s, f)
  \/ ClearDedupCache
  \/ GetCacheStats
  \/ ClearAllPlates
  \/ \E p \in PlateTexts \ {""}, g \in BOOLEAN, ts \in {r.timestamp : r \in plates} :
       DeletePlate(p, g, ts)
  \/ \E w \in SettingsRequests : DeduplicationSettings(w)

SpecDedup == Init /\ [][NextDedup]_vars

\* Canonical codes that differ in their last character or in their length.
KeyPlateTexts == {"ABC-123", "ABC-12", "ABC-124"}

\* add_plate_reading for several codes on each configured source, with the
\* clock: nothing is deleted from the table.
NextKeys ==
  \/ \E d \in Deltas : Tick(d)
  \/ \E p \in KeyPlateTexts, s \in CAMERA_SOURCES, f \in BOOLEAN : AddPlateReadingCall(p, s, f)

SpecKeys == Init /\ [][NextKeys]_vars

\* Sequences of add_plate_reading calls alone, with the clock, the sweep and
\* the window setting: nothing is deleted from the table.
NextShouldAccept ==
  \/ \E d \in Deltas : Tick(d)
  \/ \E p \in PlateTexts, s \in CAMERA_SOURCES, f \in BOOLEAN : AddPlateReadingCall(p, s, f)
  \/ GetCacheStats
  \/ \E w \in SettingsRequests : DeduplicationSettings(w)

SpecShouldAccept == Init /\ [][NextShouldAccept]_vars

\* Sequences of add_plate_reading calls with the clock and with requests that
\* clear the cache (POST /api/cache/clear).
NextClear ==
  \/ \E d \in Deltas : Tick(d)
  \/ \E p \in PlateTexts, s \in CAMERA_SOURCES, f \in BOOLEAN : AddPlateReadingCall(p, s, f)
  \/ ClearDedupCache

SpecClear == Init /\ [][NextClear]_vars

\* Long waits between calls: half a second past the sweep horizon, and a day
\* and a few seconds.
LongDeltas == {SweepHorizon * TicksPerSec + 1,
               (SecondsPerDay + WindowMin) * TicksPerSec}

\* cleanup_cache() called on its own.
CleanupCacheCall ==
  /\ plate_cache' = CleanupCache(plate_cache, now)
  /\ lastCall' = [op |-> "cleanup"]
  /\ UNCHANGED <<now, advances, plates, deduplication_time, camVars, loopVars, ocrVars, calls>>

\* The cache under add_plate_reading and cleanup_cache with short and long waits.
NextSweep ==
  \/ \E d \in Deltas \cup LongDeltas : Tick(d)
  \/ \E p \in PlateTexts, s \in CAMERA_SOURCES, f \in BOOLEAN : AddPlateReadingCall(p, s, f)
  \/ CleanupCacheCall

SpecSweep == Init /\ [][NextSweep]_vars

\* The same functions run by two threads, statement by statement: the loop's
\* add_plate_reading and a request's get_cache_stats or clear_dedup_cache.
\* Nothing in database.py or app.py locks plate_cache.

\* The dict the items() view of a caller iterates.
View(call) == IF call.live THEN plate_cache ELSE call.snap

\* The dictionary iterator's test `di_used != ma_used`: the dict changed size
\* since the iteration began.
SizeChanged(call) == call.live /\ Cardinality(DOMAIN plate_cache) # call.used

\* The dict has the size it had when the iteration began, with other keys:
\* the iterator raises or goes on, depending on the position it had reached.
KeysChanged(call) ==
  call.live /\ Cardinality(DOMAIN plate_cache) = call.used /\ DOMAIN plate_cache # call.keys0

\* cleanup_cache, lines 14-17: current_time, expired_keys = [], the iterator.
SweepBegin(call, op, plate_text, camera_source) ==
  [IdleCall EXCEPT !.pc = "iterate", !.op = op, !.used = Cardinality(DOMAIN plate_cache),
                   !.keys0 = DOMAIN plate_cache, !.current_time = now,
                   !.plate_text = plate_text, !.camera_source = camera_source,
                   !.dedup_seconds = deduplication_time]

\* The exception leaves the function: the locals are gone.
Raised(call, error) == [IdleCall EXCEPT !.pc = "raised", !.op = call.op, !.error = error]

\* add_plate_reading, lines 95-100 and cleanup_cache lines 14-17, in the loop.
AddBegin(plate_text, camera_source) ==
  /\ calls["loop"].pc = "idle"
  /\ calls' = [calls EXCEPT !["loop"] = SweepBegin(@, "add", plate_text, camera_source)]
  /\ UNCHANGED <<dedupVars, camVars, loopVars, ocrVars>>

\* get_cache_stats, line 33 and cleanup_cache lines 14-17, in a request; a
\* request whose predecessor raised (answered 500) is a new call.
StatsBegin ==
  /\ calls["request"].pc \in {"idle", "raised"}
  /\ calls' = [calls EXCEPT !["request"] = SweepBegin(@, "stats", "", None)]
  /\ UNCHANGED <<dedupVars, camVars, loopVars, ocrVars>>

\* cleanup_cache, lines 17-19: one turn of `for key, timestamp in
\* plate_cache.items()`.
SweepNext(c) ==
  /\ calls[c].pc = "iterate"
  /\ \/ /\ SizeChanged(calls[c]) \/ KeysChanged(calls[c])
        /\ calls' = [calls EXCEPT ![c] = Raised(@, "RuntimeError")]
     \/ /\ ~SizeChanged(calls[c])
        /\ LET rest == (DOMAIN View(calls[c])) \ calls[c].seen
           IN  IF rest = {}
               THEN calls' = [calls EXCEPT ![c].pc = "delete", ![c].live = TRUE,
                                           ![c].snap = << >>, ![c].used = 0,
                                           ![c].keys0 = {}, ![c].seen = {}]
               ELSE \E key \in rest :
                      calls' = [calls EXCEPT
                        ![c].seen = @ \cup {key},
                        ![c].expired_keys =
                          IF TimedeltaSeconds(calls[c].current_time - View(calls[c])[key])
                               > SweepHorizon
                          THEN @ \cup {key} ELSE @]
  /\ UNCHANGED <<dedupVars, camVars, loopVars, ocrVars>>

\* cleanup_cache, lines 21-22: one turn of `for key in expired_keys: del
\* plate_cache[key]`; after the last one get_cache_stats builds its answer
\* and add_plate_reading goes on to line 102.
SweepDelete(c) ==
  /\ calls[c].pc = "delete"
  /\ IF calls[c].expired_keys = {}
     THEN /\ calls' = [calls EXCEPT ![c] =
                         IF @.op = "stats" THEN IdleCall ELSE [@ EXCEPT !.pc = "test"]]
          /\ UNCHANGED plate_cache
     ELSE \E key \in calls[c].expired_keys :
            IF key \in DOMAIN plate_cache
            THEN /\ plate_cache' = [k \in (DOMAIN plate_cache) \ {key} |-> plate_cache[k]]
                 /\ calls' = [calls EXCEPT ![c].expired_keys = @ \ {key}]
            ELSE /\ calls' = [calls EXCEPT ![c] = Raised(@, "KeyError")]
                 /\ UNCHANGED plate_cache
  /\ UNCHANGED <<now, advances, plates, deduplication_time, lastCall>>
  /\ UNCHANGED <<camVars, loopVars, ocrVars>>

\* add_plate_reading, lines 102-106: current_time, cache_key and the test
\* `cache_key in plate_cache`.
AddTest ==
  /\ calls["loop"].pc = "test"
  /\ calls' = [calls EXCEPT
       !["loop"].current_time = now,
       !["loop"].pc = IF CacheKey(calls["loop"].plate_text, calls["loop"].camera_source)
                           \in DOMAIN plate_cache
                      THEN "read" ELSE "store"]
  /\ UNCHANGED <<dedupVars, camVars, loopVars, ocrVars>>

\* add_plate_reading, lines 107-110: plate_cache[cache_key] is read and the
\* age compared with the window; a recent entry ends the call with False.
AddRead ==
  /\ calls["loop"].pc = "read"
  /\ LET call == calls["loop"]
         key == CacheKey(call.plate_text, call.camera_source)
     IN  calls' = [calls EXCEPT !["loop"] =
           IF key \notin DOMAIN plate_cache THEN Raised(call, "KeyError")
           ELSE IF TotalSecondsBelow(call.current_time - plate_cache[key], call.dedup_seconds)
           THEN IdleCall
           ELSE [call EXCEPT !.pc = "store"]]
  /\ UNCHANGED <<dedupVars, camVars, loopVars, ocrVars>>

\* add_plate_reading, lines 112-158: the query of the table, the insert and
\* the assignments to plate_cache[cache_key]; none of them can fail on the
\* cache.  storeFails: sqlite3 raises and the call returns False.
AddStore(storeFails) ==
  /\ calls["loop"].pc = "store"
  /\ LET call == calls["loop"]
         key == CacheKey(call.plate_text, call.camera_source)
         recent == /\ key \notin DOMAIN plate_cache
                   /\ RecentRows(plates, call.plate_text, call.camera_source,
                                 call.dedup_seconds, call.current_time) # {}
     IN  /\ plate_cache' = IF storeFails THEN plate_cache
                           ELSE CachePut(plate_cache, key, call.current_time)
         /\ plates' = IF storeFails \/ recent THEN plates
                      ELSE plates \cup {[plate_text |-> call.plate_text,
                                         camera_source |-> call.camera_source,
                                         timestamp |-> Strftime(call.current_time),
                                         at |-> call.current_time]}
         /\ Cardinality(plates') <= MaxRows
  /\ calls' = [calls EXCEPT !["loop"] = IdleCall]
  /\ UNCHANGED <<now, advances, deduplication_time, lastCall>>
  /\ UNCHANGED <<camVars, loopVars, ocrVars>>

\* Waits between the statements: a minimal window, and half a second past
\* the sweep horizon.
Tier1Deltas == {WindowMin * TicksPerSec, SweepHorizon * TicksPerSec + 1}

NextTier1 ==
  \/ \E d \in Tier1Deltas : Tick(d)
  \/ \E p \in PlateTexts \ {""}, s \in CAMERA_SOURCES : AddBegin(p, s)
  \/ StatsBegin
  \/ ClearDedupCache
  \/ \E c \in Callers : SweepNext(c)
  \/ \E c \in Callers : SweepDelete(c)
  \/ AddTest
  \/ AddRead
  \/ \E f \in BOOLEAN : AddStore(f)

SpecTier1 == Init /\ [][NextTier1]_vars

\* ------------------------------------------------------ camera_manager.py

\* The source names a caller may pass: the configured ones and one that
\* config.py does not define.
SourceNames == CAMERA_SOURCES \cup {"usb_cam"}

\* What current_cap.read() may do: deliver a frame, fail with the capture still
\* reporting itself open, or fail with the capture no longer open.
ReadOutcomes == {"frame", "fail", "fail_closed"}

\* Sizes <<width, height>> of the frames a capture delivers.
FrameSizes == {<<640, 480>>, <<MaxFrameWidth, 600>>, <<1600, 900>>}

\* The CameraManager fields as one value.
Cam == [active_source |-> active_source, current_cap |-> current_cap, opened |-> opened]

\* Whether some VideoCapture object is free for cv2.VideoCapture(...) to return;
\* held: the objects other callers hold in local variables.
HasFreshCap(c, held) == \E h \in 1..MaxCaps : h \notin (c.opened \cup held \cup {c.current_cap})

\* The VideoCapture object cv2.VideoCapture(...) returns: one nothing refers to.
FreshCap(c, held) ==
  CHOOSE h \in 1..MaxCaps :
    /\ h \notin (c.opened \cup held \cup {c.current_cap})
    /\ \A g \in 1..MaxCaps : g \notin (c.opened \cup held \cup {c.current_cap}) => h <= g

\* release_current_source()
ReleaseCurrentSource(c) ==
  IF c.current_cap # NoCap
  THEN [active_source |-> None, current_cap |-> NoCap, opened |-> c.opened \ {c.current_cap}]
  ELSE c

\* An early return that never applies: every call reopens.
AlreadyActive_Never(c, source_name) == FALSE

\* select_source, line 27: the requested source is already active and open.
AlreadyActive(c, source_name) ==
  c.active_source = source_name /\ c.current_cap # NoCap /\ c.current_cap \in c.opened

\* select_source, lines 23-41: the lookup, the early return when the source is
\* already active, the release of the previous capture and cv2.VideoCapture
\* (canOpen: whether the endpoint can be opened).  returned says whether the
\* call has returned; cap is the new local VideoCapture object.
SelectBegin(c, source_name, canOpen, held) ==
  IF source_name \notin CAMERA_SOURCES
  THEN [returned |-> TRUE, ret |-> FALSE, cam |-> c, cap |-> NoCap, released |-> FALSE]
  ELSE IF AlreadyActive(c, source_name)
  THEN [returned |-> TRUE, ret |-> TRUE, cam |-> c, cap |-> NoCap, released |-> FALSE]
  ELSE LET r == ReleaseCurrentSource(c)
           h == FreshCap(r, held)
       IN  [returned |-> FALSE, ret |-> FALSE,
            cam |-> [r EXCEPT !.opened = IF canOpen THEN @ \cup {h} ELSE @],
            cap |-> h, released |-> c.current_cap # NoCap]

\* Rebinding current_cap drops the reference to the object it held: an object
\* nobody else holds is destroyed, which closes its capture.
Rebind(c, cap, source_name, held) ==
  [active_source |-> source_name, current_cap |-> cap,
   opened |-> IF c.current_cap \in held \cup {cap, NoCap}
              THEN c.opened ELSE c.opened \ {c.current_cap}]

\* A failure branch that keeps the name of the requested source as active.
SelectEnd_KeepsName(c, source_name, cap, held) ==
  IF cap \notin c.opened
  THEN [ret |-> FALSE, cam |-> Rebind(c, NoCap, source_name, held)]
  ELSE [ret |-> TRUE,  cam |-> Rebind(c, cap, source_name, held)]

\* select_source, lines 43-52: the check of cap.isOpened() and the assignments.
SelectEnd(c, source_name, cap, held) ==
  IF cap \notin c.opened
  THEN [ret |-> FALSE, cam |-> Rebind(c, NoCap, None, held)]
  ELSE [ret |-> TRUE,  cam |-> Rebind(c, cap, source_name, held)]

\* select_source(source_name) run by a single caller, start to end.
SelectSource(c, source_name, canOpen) ==
  LET b == SelectBegin(c, source_name, canOpen, {})
  IN  IF b.returned
      THEN [ret |-> b.ret, cam |-> b.cam, released |-> FALSE, constructed |-> FALSE]
      ELSE LET e == SelectEnd(b.cam, source_name, b.cap, {})
           IN  [ret |-> e.ret, cam |-> e.cam, released |-> b.released, constructed |-> TRUE]

\* The capture after current_cap.read(): a failing read may leave it not open.
AfterRead(c, outcome) ==
  IF outcome = "fail_closed" THEN [c EXCEPT !.opened = @ \ {c.current_cap}] ELSE c

\* A recovery that calls select_source again when the first call failed, and
\* reports the read as successful when a reselect succeeded.
Reselect_Retry(c, reach) ==
  LET s1 == SelectSource(c, c.active_source, c.active_source \in reach)
      s2 == SelectSource(s1.cam, c.active_source, c.active_source \in reach)
  IN  IF s1.ret
      THEN [success |-> TRUE, cam |-> s1.cam, calls |-> 1,
            released |-> s1.released, constructed |-> s1.constructed]
      ELSE [success |-> s2.ret, cam |-> s2.cam, calls |-> 2,
            released |-> s1.released, constructed |-> s1.constructed \/ s2.constructed]

\* get_frame, lines 63-67: after a failed read, select_source(self.active_source)
\* is called once and (False, None) is returned whatever it returned.
\* reach: the sources whose endpoint can be opened.
Reselect(c, reach) ==
  LET s1 == SelectSource(c, c.active_source, c.active_source \in reach)
  IN  [success |-> FALSE, cam |-> s1.cam, calls |-> 1,
       released |-> s1.released, constructed |-> s1.constructed]

\* get_frame, lines 70-75: a frame wider than 800 is resized to width 800 and
\* height int(height * (800 / width)).
Resize(size) ==
  IF size[1] > MaxFrameWidth
  THEN <<MaxFrameWidth, (size[2] * MaxFrameWidth) \div size[1]>>
  ELSE size

NoFrame == << >>

\* get_frame() run by a single caller, start to end.
GetFrame(c, outcome, size, reach) ==
  IF c.current_cap # NoCap /\ c.current_cap \in c.opened
  THEN IF outcome = "frame"
       THEN [success |-> TRUE, frame |-> Resize(size), cam |-> c, read |-> TRUE,
             calls |-> 0, released |-> FALSE, constructed |-> FALSE]
       ELSE LET r == Reselect(AfterRead(c, outcome), reach)
            IN  [success |-> r.success, frame |-> NoFrame, cam |-> r.cam, read |-> TRUE,
                 calls |-> r.calls, released |-> r.released, constructed |-> r.constructed]
  ELSE [success |-> FALSE, frame |-> NoFrame, cam |-> c, read |-> FALSE,
        calls |-> 0, released |-> FALSE, constructed |-> FALSE]

NoCamCall == [op |-> "none"]

SetCam(c) ==
  /\ active_source' = c.active_source
  /\ current_cap' = c.current_cap
  /\ opened' = c.opened

\* camera_manager.select_source(source_name), single caller.
SelectSourceCall(source_name) ==
  LET r == SelectSource(Cam, source_name, source_name \in reachable)
  IN  /\ SetCam(r.cam)
      /\ lastCam' = [op |-> "select", source |-> source_name, ret |-> r.ret,
                     wasActive |-> (active_source = source_name /\ current_cap \in opened),
                     capBefore |-> current_cap,
                     released |-> r.released, constructed |-> r.constructed]
      /\ UNCHANGED <<reachable, dedupVars, loopVars, ocrVars, calls>>

\* camera_manager.get_frame(), single caller.
GetFrameCall(outcome, size) ==
  LET r == GetFrame(Cam, outcome, size, reachable)
  IN  /\ SetCam(r.cam)
      /\ lastCam' = [op |-> "get_frame", success |-> r.success, frame |-> r.frame,
                     outcome |-> IF r.read THEN outcome ELSE None,
                     calls |-> r.calls,
                     released |-> r.released, constructed |-> r.constructed]
      /\ UNCHANGED <<reachable, dedupVars, loopVars, ocrVars, calls>>

\* camera_manager.release_current_source(), single caller.
ReleaseCall ==
  /\ SetCam(ReleaseCurrentSource(Cam))
  /\ lastCam' = [op |-> "release"]
  /\ UNCHANGED <<reachable, dedupVars, loopVars, ocrVars, calls>>

\* The capture stops reporting itself as open (device unplugged, stream ended)
\* while the manager still refers to it.
CaptureLost ==
  /\ current_cap # NoCap /\ current_cap \in opened
  /\ opened' = opened \ {current_cap}
  /\ lastCam' = NoCamCall
  /\ UNCHANGED <<active_source, current_cap, reachable, dedupVars, loopVars, ocrVars, calls>>

\* The endpoint of a source becomes reachable or unreachable.
EndpointChange(source_name) ==
  /\ reachable' = IF source_name \in reachable
                  THEN reachable \ {source_name} ELSE reachable \cup {source_name}
  /\ lastCam' = NoCamCall
  /\ UNCHANGED <<active_source, current_cap, opened, dedupVars, loopVars, ocrVars, calls>>

NextCam ==
  \/ \E s \in SourceNames : SelectSourceCall(s)
  \/ \E o \in ReadOutcomes, z \in FrameSizes : GetFrameCall(o, z)
  \/ ReleaseCall
  \/ CaptureLost
  \/ \E s \in CAMERA_SOURCES : EndpointChange(s)

SpecCam == Init /\ [][NextCam]_vars

\* ------------------------------------------------------------------ app.py

\* threading.Thread.is_alive()
Alive(t) == loops[t].pc \notin {"unborn", "done", "crashed"}

\* The VideoCapture objects the threads other than t hold in select_source.
Held(t) == {loops[u].cap : u \in Threads \ {t}} \ {NoCap}

\* What detect_and_process_plates may return as detected_plates: up to
\* MaxDetections recognised plates (empty texts are not appended, line 90).
DetectedPlates ==
  UNION {[1..n -> PlateTexts \ {""}] : n \in 0..MaxDetections}

\* 'start', line 292: if not processing_active.
StartCheck(h, src) ==
  /\ handlers[h].pc = "idle"
  /\ Cardinality({t \in Threads : ~Alive(t)}) >
       Cardinality({g \in Handlers : handlers[g].pc # "idle"})
  /\ handlers' = IF processing_active THEN handlers
                 ELSE [handlers EXCEPT ![h] = [pc |-> "set", src |-> src]]
  /\ UNCHANGED <<processing_active, active_camera_source, processing_thread, loops>>
  /\ UNCHANGED <<dedupVars, camVars, ocrVars, calls>>

\* 'start', lines 293-297: the flag, the source, and the test of the thread.
StartSet(h) ==
  /\ handlers[h].pc = "set"
  /\ processing_active' = TRUE
  /\ active_camera_source' = handlers[h].src
  /\ handlers' = IF processing_thread = NoThread \/ ~Alive(processing_thread)
                 THEN [handlers EXCEPT ![h].pc = "spawn"]
                 ELSE [handlers EXCEPT ![h] = IdleHandler]
  /\ UNCHANGED <<processing_thread, loops>>
  /\ UNCHANGED <<dedupVars, camVars, ocrVars, calls>>

\* 'start', lines 298-301: start_background_task(video_processing_loop).
StartSpawn(h) ==
  /\ handlers[h].pc = "spawn"
  /\ \E t \in Threads :
       /\ ~Alive(t)
       /\ \A u \in Threads : ~Alive(u) => t <= u
       /\ loops' = [loops EXCEPT ![t] = [IdleLoop EXCEPT !.pc = "check"]]
       /\ processing_thread' = t
  /\ handlers' = [handlers EXCEPT ![h] = IdleHandler]
  /\ UNCHANGED <<processing_active, active_camera_source>>
  /\ UNCHANGED <<dedupVars, camVars, ocrVars, calls>>

\* A 'start' that takes the requested source although processing is active.
StartIgnored_TakesSource(h, src) ==
  /\ handlers[h].pc = "idle"
  /\ processing_active
  /\ active_camera_source' = src
  /\ handlers' = [handlers EXCEPT ![h] = [pc |-> "ignored", src |-> src]]
  /\ UNCHANGED <<processing_active, processing_thread, loops>>
  /\ UNCHANGED <<dedupVars, camVars, ocrVars, calls>>

\* 'start', lines 291-292 and 302-303, when processing_active is True: the
\* handler only prints that processing was already active.  The handler's
\* record keeps the source the command named until the handler returns.
StartIgnored(h, src) ==
  /\ handlers[h].pc = "idle"
  /\ processing_active
  /\ handlers' = [handlers EXCEPT ![h] = [pc |-> "ignored", src |-> src]]
  /\ UNCHANGED <<processing_active, active_camera_source, processing_thread, loops>>
  /\ UNCHANGED <<dedupVars, camVars, ocrVars, calls>>

\* The handler of an ignored 'start' returns.
StartReturn(h) ==
  /\ handlers[h].pc = "ignored"
  /\ handlers' = [handlers EXCEPT ![h] = IdleHandler]
  /\ UNCHANGED <<processing_active, active_camera_source, processing_thread, loops>>
  /\ UNCHANGED <<dedupVars, camVars, ocrVars, calls>>

\* 'stop', lines 305-311.
Stop ==
  /\ processing_active' = FALSE
  /\ UNCHANGED <<active_camera_source, processing_thread, loops, handlers>>
  /\ UNCHANGED <<dedupVars, camVars, ocrVars, calls>>

\* 'switch_camera', lines 313-319.
SwitchCamera(new_source) ==
  /\ active_camera_source' = new_source
  /\ UNCHANGED <<processing_active, processing_thread, loops, handlers>>
  /\ UNCHANGED <<dedupVars, camVars, ocrVars, calls>>

\* A loop that goes on to read a frame after a failed select.
BreakOnSelectFailure_Continue == [active |-> TRUE, pc |-> "get"]

\* The loop leaves its body after a failed select: processing_active = False; break.
BreakOnSelectFailure == [active |-> FALSE, pc |-> "exit"]

\* A loop that gives up on a failed frame read.
AfterFailedFrame_Fatal == [stop |-> TRUE, pc |-> "exit"]

\* Lines 224-226: after a failed get_frame the loop sleeps 0.5 s and continues
\* with the next iteration; it does not touch processing_active.
AfterFailedFrame == [stop |-> FALSE, pc |-> "check"]

\* Line 214: while processing_active.
LoopCheck(t) ==
  /\ loops[t].pc = "check"
  /\ loops' = [loops EXCEPT ![t].pc = IF processing_active THEN "select" ELSE "exit",
                            ![t].failed = "no"]
  /\ UNCHANGED <<processing_active, active_camera_source, processing_thread, handlers>>
  /\ UNCHANGED <<dedupVars, camVars, ocrVars, calls>>

\* Lines 216-220 with select_source lines 23-41.
LoopSelect(t, canOpen) ==
  /\ loops[t].pc = "select"
  /\ IF active_source # active_camera_source
     THEN /\ HasFreshCap(ReleaseCurrentSource(Cam), Held(t))
          /\ LET b == SelectBegin(Cam, active_camera_source, canOpen, Held(t))
             IN  /\ SetCam(b.cam)
                 /\ IF b.returned
                    THEN /\ loops' = [loops EXCEPT
                                ![t].pc = IF b.ret THEN "get" ELSE BreakOnSelectFailure.pc,
                                ![t].failed = IF b.ret THEN @ ELSE "select"]
                         /\ processing_active' =
                              IF b.ret THEN processing_active ELSE BreakOnSelectFailure.active
                    ELSE /\ loops' = [loops EXCEPT ![t].pc = "select_end",
                                                   ![t].cap = b.cap,
                                                   ![t].src = active_camera_source]
                         /\ UNCHANGED processing_active
     ELSE /\ loops' = [loops EXCEPT ![t].pc = "get"]
          /\ UNCHANGED <<processing_active, active_source, current_cap, opened>>
  /\ UNCHANGED <<active_camera_source, processing_thread, handlers>>
  /\ UNCHANGED <<reachable, lastCam, dedupVars, ocrVars, calls>>

\* Lines 217-220 with select_source lines 43-52.
LoopSelectEnd(t) ==
  /\ loops[t].pc = "select_end"
  /\ LET e == SelectEnd(Cam, loops[t].src, loops[t].cap, Held(t))
     IN  /\ SetCam(e.cam)
         /\ loops' = [loops EXCEPT ![t].pc = IF e.ret THEN "get" ELSE BreakOnSelectFailure.pc,
                                   ![t].failed = IF e.ret THEN @ ELSE "select",
                                   ![t].cap = NoCap, ![t].src = None]
         /\ processing_active' =
              IF e.ret THEN processing_active ELSE BreakOnSelectFailure.active
  /\ UNCHANGED <<active_camera_source, processing_thread, handlers>>
  /\ UNCHANGED <<reachable, lastCam, dedupVars, ocrVars, calls>>

\* Lines 223-226 with get_frame lines 61-67 and select_source lines 23-41.
LoopGetFrame(t, outcome, canOpen) ==
  /\ loops[t].pc = "get"
  /\ IF current_cap # NoCap /\ current_cap \in opened
     THEN IF outcome = "frame"
          THEN /\ loops' = [loops EXCEPT ![t].pc = "detect", ![t].frame = active_source]
               /\ UNCHANGED <<processing_active, active_source, current_cap, opened>>
          ELSE /\ HasFreshCap(ReleaseCurrentSource(Cam), Held(t))
               /\ LET c == AfterRead(Cam, outcome)
                      b == SelectBegin(c, c.active_source, canOpen, Held(t))
                  IN  /\ SetCam(b.cam)
                      /\ IF b.returned
                         THEN /\ loops' = [loops EXCEPT ![t].pc = AfterFailedFrame.pc,
                                                        ![t].failed = "read"]
                              /\ processing_active' =
                                   IF AfterFailedFrame.stop THEN FALSE ELSE processing_active
                         ELSE /\ loops' = [loops EXCEPT ![t].pc = "reselect_end",
                                                        ![t].cap = b.cap,
                                                        ![t].src = c.active_source]
                              /\ UNCHANGED processing_active
     ELSE /\ outcome = "fail"
          /\ loops' = [loops EXCEPT ![t].pc = AfterFailedFrame.pc, ![t].failed = "closed"]
          /\ processing_active' = IF AfterFailedFrame.stop THEN FALSE ELSE processing_active
          /\ UNCHANGED <<active_source, current_cap, opened>>
  /\ UNCHANGED <<active_camera_source, processing_thread, handlers>>
  /\ UNCHANGED <<reachable, lastCam, dedupVars, ocrVars, calls>>

\* Lines 224-226 with get_frame line 67 and select_source lines 43-52: the
\* reselect of get_frame ends; get_frame returns (False, None) in any case.
LoopReselectEnd(t) ==
  /\ loops[t].pc = "reselect_end"
  /\ LET e == SelectEnd(Cam, loops[t].src, loops[t].cap, Held(t))
     IN  SetCam(e.cam)
  /\ loops' = [loops EXCEPT ![t].pc = AfterFailedFrame.pc, ![t].failed = "read",
                            ![t].cap = NoCap, ![t].src = None]
  /\ processing_active' = IF AfterFailedFrame.stop THEN FALSE ELSE processing_active
  /\ UNCHANGED <<active_camera_source, processing_thread, handlers>>
  /\ UNCHANGED <<reachable, lastCam, dedupVars, ocrVars, calls>>

\* Line 229: detect_and_process_plates returns the detected plates, or raises
\* (model inference is not guarded): the exception ends the thread.
LoopDetect(t, raises, detected) ==
  /\ loops[t].pc = "detect"
  /\ loops' = IF raises
              THEN [loops EXCEPT ![t].pc = "crashed", ![t].frame = None]
              ELSE [loops EXCEPT ![t].pc = IF detected = << >> THEN "emit" ELSE "add",
                                 ![t].detected = detected, ![t].added = << >>]
  /\ UNCHANGED <<processing_active, active_camera_source, processing_thread, handlers>>
  /\ UNCHANGED <<dedupVars, camVars, ocrVars, calls>>

\* Lines 234-243: add_plate_reading for the next detected plate.
LoopAdd(t, storeFails) ==
  /\ loops[t].pc = "add"
  /\ LET plate == Head(loops[t].detected)
         r == AddPlateReading(plate, active_camera_source, deduplication_time, storeFails,
                              plate_cache, plates, now)
     IN  /\ plate_cache' = r.cache
         /\ plates' = r.rows
         /\ loops' = [loops EXCEPT
              ![t].detected = Tail(@),
              ![t].added = IF r.result
                           THEN Append(@, [plate |-> plate, camera |-> active_camera_source])
                           ELSE @,
              ![t].pc = IF Tail(loops[t].detected) = << >> THEN "emit" ELSE "add"]
  /\ UNCHANGED <<processing_active, active_camera_source, processing_thread, handlers>>
  /\ UNCHANGED <<now, advances, deduplication_time, lastCall, camVars, ocrVars, calls>>

\* Lines 245-259: the batch of new plates and the frame are emitted; sleep.
LoopEmit(t) ==
  /\ loops[t].pc = "emit"
  /\ loops' = [loops EXCEPT ![t].pc = "check", ![t].added = << >>, ![t].frame = None]
  /\ UNCHANGED <<processing_active, active_camera_source, processing_thread, handlers>>
  /\ UNCHANGED <<dedupVars, camVars, ocrVars, calls>>

\* Lines 261-263: release_current_source() and the terminal status_update.
LoopExit(t) ==
  /\ loops[t].pc = "exit"
  /\ SetCam(ReleaseCurrentSource(Cam))
  /\ loops' = [loops EXCEPT ![t].pc = "done", ![t].failed = "no",
                            ![t].released = TRUE, ![t].notified = TRUE]
  /\ UNCHANGED <<processing_active, active_camera_source, processing_thread, handlers>>
  /\ UNCHANGED <<reachable, lastCam, dedupVars, ocrVars, calls>>

NextLoop ==
  \/ \E h \in Handlers, s \in SourceNames : StartCheck(h, s)
  \/ \E h \in Handlers : StartSet(h)
  \/ \E h \in Handlers : StartSpawn(h)
  \/ Stop
  \/ \E s \in SourceNames : SwitchCamera(s)
  \/ \E t \in Threads : LoopCheck(t)
  \/ \E t \in Threads, canOpen \in BOOLEAN : LoopSelect(t, canOpen)
  \/ \E t \in Threads : LoopSelectEnd(t)
  \/ \E t \in Threads, o \in ReadOutcomes, canOpen \in BOOLEAN : LoopGetFrame(t, o, canOpen)
  \/ \E t \in Threads : LoopReselectEnd(t)
  \/ \E t \in Threads, x \in BOOLEAN, d \in DetectedPlates : LoopDetect(t, x, d)
  \/ \E t \in Threads, f \in BOOLEAN : LoopAdd(t, f)
  \/ \E t \in Threads : LoopEmit(t)
  \/ \E t \in Threads : LoopExit(t)
  \/ CaptureLost

SpecLoop == Init /\ [][NextLoop]_vars

\* The commands and the loop with a camera whose frames show no plate, the
\* 'start' commands that find processing active included.
NextStart ==
  \/ \E h \in Handlers, s \in SourceNames : StartCheck(h, s)
  \/ \E h \in Handlers : StartSet(h)
  \/ \E h \in Handlers : StartSpawn(h)
  \/ \E h \in Handlers, s \in SourceNames : StartIgnored(h, s)
  \/ \E h \in Handlers : StartReturn(h)
  \/ Stop
  \/ \E s \in SourceNames : SwitchCamera(s)
  \/ \E t \in Threads : LoopCheck(t)
  \/ \E t \in Threads, canOpen \in BOOLEAN : LoopSelect(t, canOpen)
  \/ \E t \in Threads : LoopSelectEnd(t)
  \/ \E t \in Threads, o \in ReadOutcomes, canOpen \in BOOLEAN : LoopGetFrame(t, o, canOpen)
  \/ \E t \in Threads : LoopReselectEnd(t)
  \/ \E t \in Threads, x \in BOOLEAN : LoopDetect(t, x, << >>)
  \/ \E t \in Threads : LoopEmit(t)
  \/ \E t \in Threads : LoopExit(t)

SpecStart == Init /\ [][NextStart]_vars

\* The steps of the thread t of video_processing_loop.
LoopStep(t) ==
  \/ LoopCheck(t)
  \/ \E canOpen \in BOOLEAN : LoopSelect(t, canOpen)
  \/ LoopSelectEnd(t)
  \/ \E o \in ReadOutcomes, canOpen \in BOOLEAN : LoopGetFrame(t, o, canOpen)
  \/ LoopReselectEnd(t)
  \/ \E x \in BOOLEAN, d \in DetectedPlates : LoopDetect(t, x, d)
  \/ \E f \in BOOLEAN : LoopAdd(t, f)
  \/ LoopEmit(t)
  \/ LoopExit(t)

\* The steps of a 'start' handler past its first test.
HandlerStep(h) == StartSet(h) \/ StartSpawn(h)

\* Every started thread and every handler in flight keeps being scheduled.
FairLoop ==
  /\ \A t \in Threads : WF_vars(LoopStep(t))
  /\ \A h \in Handlers : WF_vars(HandlerStep(h))

SpecLoopFair == SpecLoop /\ FairLoop

\* -------------------------------------------------------- ocr_processor.py

Letters == {"A", "B", "C", "D", "E", "F", "G", "H", "I", "J", "K", "L", "M",
            "N", "O", "P", "Q", "R", "S", "T", "U", "V", "W", "X", "Y", "Z"}

Digits == {"0", "1", "2", "3", "4", "5", "6", "7", "8", "9"}

\* \s of the regular expressions.
Whitespace == {" ", "\n"}

LowerCase == <<"a", "b", "c", "d", "e", "f", "g", "h", "i", "j", "k", "l", "m",
               "n", "o", "p", "q", "r", "s", "t", "u", "v", "w", "x", "y", "z">>

UpperCase == <<"A", "B", "C", "D", "E", "F", "G", "H", "I", "J", "K", "L", "M",
               "N", "O", "P", "Q", "R", "S", "T", "U", "V", "W", "X", "Y", "Z">>

\* str.upper(), character by character.
Upper(text) ==
  [i \in 1..Len(text) |->
     IF \E j \in 1..Len(LowerCase) : LowerCase[j] = text[i]
     THEN UpperCase[CHOOSE j \in 1..Len(LowerCase) : LowerCase[j] = text[i]]
     ELSE text[i]]

\* str.strip()
RECURSIVE Strip(_)
Strip(text) ==
  IF text = << >> THEN text
  ELSE IF Head(text) \in Whitespace THEN Strip(Tail(text))
  ELSE IF text[Len(text)] \in Whitespace THEN Strip(SubSeq(text, 1, Len(text) - 1))
  ELSE text

IsAllowed(ch) == ch \in Letters \cup Digits \cup {"-"}

\* re.sub(r'[^A-Z0-9-]', '', text)
RemoveInvalid(text) == SelectSeq(text, IsAllowed)

\* re.sub(r'-+', '-', cleaned)
RECURSIVE CollapseDashes(_)
CollapseDashes(text) ==
  IF Len(text) < 2 THEN text
  ELSE IF text[1] = "-" /\ text[2] = "-" THEN CollapseDashes(Tail(text))
  ELSE <<text[1]>> \o CollapseDashes(Tail(text))

IsNotSeparator(ch) == ch \notin {"-"} \cup Whitespace

\* re.sub(r'[-\s]', '', text)
RemoveSeparators(text) == SelectSeq(text, IsNotSeparator)

\* The six patterns of is_valid_peruvian_plate, in order: "L" is [A-Z], "D" [0-9].
Patterns ==
  << <<"L", "L", "L", "D", "D", "D">>,
     <<"L", "D", "L", "D", "D", "D">>,
     <<"L", "L", "D", "D", "D", "D">>,
     <<"L", "L", "L", "L", "D", "D">>,
     <<"L", "D", "D", "L", "D", "D">>,
     <<"D", "D", "D", "L", "L", "L">> >>

\* re.match(pattern, clean) for a pattern anchored at both ends.
Matches(pattern, clean) ==
  /\ Len(clean) = Len(pattern)
  /\ \A i \in 1..Len(pattern) :
       IF pattern[i] = "L" THEN clean[i] \in Letters ELSE clean[i] \in Digits

\* is_valid_peruvian_plate
IsValidPeruvianPlate(text) ==
  /\ Len(text) >= MinCleanedLen
  /\ Len(RemoveSeparators(text)) >= MinCleanedLen
  /\ Len(RemoveSeparators(text)) <= MaxPlateLen
  /\ \E k \in 1..Len(Patterns) : Matches(Patterns[k], RemoveSeparators(text))

\* A format_plate that returns its argument when it inserts no dash.
FormatPlate_AsGiven(text) ==
  LET clean == RemoveSeparators(text)
  IN  IF Len(clean) = FormattedLen /\ (Matches(Patterns[1], clean) \/ Matches(Patterns[2], clean))
      THEN SubSeq(clean, 1, DashPosition) \o <<"-">> \o SubSeq(clean, DashPosition + 1, Len(clean))
      ELSE text

\* format_plate
FormatPlate(text) ==
  LET clean == RemoveSeparators(text)
  IN  IF Len(clean) = FormattedLen /\ (Matches(Patterns[1], clean) \/ Matches(Patterns[2], clean))
      THEN SubSeq(clean, 1, DashPosition) \o <<"-">> \o SubSeq(clean, DashPosition + 1, Len(clean))
      ELSE clean

\* clean_text, corrections: the table in its insertion order.
Corrections ==
  << <<"O", "0", "0", "0">>, <<"0", "O", "0", "0">>, <<"I", "I", "1", "1">>,
     <<"O", "O", "0", "0">>, <<"B", "8", "B", "8">>, <<"8", "B", "8", "B">>,
     <<"S", "5", "S", "5">>, <<"5", "S", "5", "S">> >>

Wrong(c) == <<c[1], c[2]>>
Right(c) == <<c[3], c[4]>>

\* wrong in cleaned, for a two-character wrong.
Contains(text, wrong) ==
  \E i \in 1..(Len(text) - 1) : text[i] = wrong[1] /\ text[i + 1] = wrong[2]

\* str.replace(wrong, right) for a two-character wrong: every occurrence,
\* left to right, without overlap.
RECURSIVE Replace(_, _, _)
Replace(text, wrong, right) ==
  IF Len(text) < 2 THEN text
  ELSE IF text[1] = wrong[1] /\ text[2] = wrong[2]
       THEN right \o Replace(SubSeq(text, 3, Len(text)), wrong, right)
       ELSE <<text[1]>> \o Replace(Tail(text), wrong, right)

\* clean_text, char_corrections.
CharCorrections ==
  {<<"O", "0">>, <<"0", "O">>, <<"I", "1">>, <<"1", "I">>, <<"S", "5">>, <<"5", "S">>,
   <<"B", "8">>, <<"8", "B">>, <<"Z", "2">>, <<"2", "Z">>, <<"G", "6">>, <<"6", "G">>}

HasPartner(ch) == \E c \in CharCorrections : c[1] = ch
Partner(ch) == (CHOOSE c \in CharCorrections : c[1] = ch)[2]

\* cleaned[:i] + char_corrections[char] + cleaned[i+1:], positions from 1.
Variation(cleaned, i) == [cleaned EXCEPT ![i] = Partner(cleaned[i])]

\* clean_text, lines 269-273: cleaned itself, then one variation for every
\* position whose character has a partner, by increasing position.
RECURSIVE VariationsFrom(_, _)
VariationsFrom(cleaned, i) ==
  IF i > Len(cleaned) THEN << >>
  ELSE (IF HasPartner(cleaned[i]) THEN <<Variation(cleaned, i)>> ELSE << >>)
       \o VariationsFrom(cleaned, i + 1)

Variations(cleaned) == <<cleaned>> \o VariationsFrom(cleaned, 1)

\* What clean_text returns when it rejects.
Empty == << >>

\* The last correction that applies and validates instead of the first.
RECURSIVE TryCorrections_Last(_, _)
TryCorrections_Last(cleaned, k) ==
  IF k > Len(Corrections) THEN Empty
  ELSE LET test_corrected == Replace(cleaned, Wrong(Corrections[k]), Right(Corrections[k]))
       IN  IF TryCorrections_Last(cleaned, k + 1) # Empty
           THEN TryCorrections_Last(cleaned, k + 1)
           ELSE IF /\ Contains(cleaned, Wrong(Corrections[k]))
                   /\ IsValidPeruvianPlate(test_corrected)
           THEN FormatPlate(test_corrected)
           ELSE Empty

\* Lines 252-256: the corrections from the k-th on; the result of the first
\* one that applies and validates, Empty if none does.
RECURSIVE TryCorrections(_, _)
TryCorrections(cleaned, k) ==
  IF k > Len(Corrections) THEN Empty
  ELSE LET test_corrected == Replace(cleaned, Wrong(Corrections[k]), Right(Corrections[k]))
       IN  IF Contains(cleaned, Wrong(Corrections[k])) /\ IsValidPeruvianPlate(test_corrected)
           THEN FormatPlate(test_corrected)
           ELSE TryCorrections(cleaned, k + 1)

\* The last variation that validates instead of the first.
RECURSIVE TryVariations_Last(_, _)
TryVariations_Last(variations, k) ==
  IF k > Len(variations) THEN Empty
  ELSE IF TryVariations_Last(variations, k + 1) # Empty
       THEN TryVariations_Last(variations, k + 1)
  ELSE IF IsValidPeruvianPlate(variations[k]) THEN FormatPlate(variations[k])
  ELSE Empty

\* Lines 276-278: the first variation that validates, formatted; Empty if none.
RECURSIVE TryVariations(_, _)
TryVariations(variations, k) ==
  IF k > Len(variations) THEN Empty
  ELSE IF IsValidPeruvianPlate(variations[k]) THEN FormatPlate(variations[k])
  ELSE TryVariations(variations, k + 1)

\* A cleaning that keeps every character.
Cleaned_KeepAll(text) == CollapseDashes(Strip(Upper(text)))

\* Lines 223-229: the cleaned text.
Cleaned(text) == CollapseDashes(RemoveInvalid(Strip(Upper(text))))

\* A clean_text without the test of line 232.
CleanText_NoLengthTest(text) ==
  IF IsValidPeruvianPlate(Cleaned(text)) THEN FormatPlate(Cleaned(text)) ELSE Cleaned(text)

\* A clean_text that tries the single-character variations before it tests
\* whether the cleaned text is valid as it is.
CleanText_CorrectFirst(text) ==
  LET cleaned == Cleaned(text)
  IN  IF text = << >> THEN Empty
      ELSE IF Len(cleaned) < MinCleanedLen \/ Len(cleaned) > MaxCleanedLen THEN Empty
      ELSE IF TryVariations(VariationsFrom(cleaned, 1), 1) # Empty
           THEN TryVariations(VariationsFrom(cleaned, 1), 1)
      ELSE IF IsValidPeruvianPlate(cleaned) THEN FormatPlate(cleaned)
      ELSE IF Len(cleaned) <= MaxPlateLen THEN cleaned
      ELSE Empty

\* A clean_text whose fallback returns the cleaned text whatever its length.
CleanText_FallbackAny(text) ==
  LET cleaned == Cleaned(text)
  IN  IF text = << >> THEN Empty
      ELSE IF Len(cleaned) < MinCleanedLen \/ Len(cleaned) > MaxCleanedLen THEN Empty
      ELSE IF IsValidPeruvianPlate(cleaned) THEN FormatPlate(cleaned)
      ELSE IF TryCorrections(cleaned, 1) # Empty THEN TryCorrections(cleaned, 1)
      ELSE IF TryVariations(Variations(cleaned), 1) # Empty
           THEN TryVariations(Variations(cleaned), 1)
      ELSE cleaned

\* clean_text
CleanText(text) ==
  LET cleaned == Cleaned(text)
  IN  IF text = << >> THEN Empty
      ELSE IF Len(cleaned) < MinCleanedLen \/ Len(cleaned) > MaxCleanedLen THEN Empty
      ELSE IF IsValidPeruvianPlate(cleaned) THEN FormatPlate(cleaned)
      ELSE IF TryCorrections(cleaned, 1) # Empty THEN TryCorrections(cleaned, 1)
      ELSE IF TryVariations(Variations(cleaned), 1) # Empty
           THEN TryVariations(Variations(cleaned), 1)
      ELSE IF Len(cleaned) >= MinCleanedLen /\ Len(cleaned) <= MaxPlateLen THEN cleaned
      ELSE Empty

\* Texts the OCR engines are taken to read off a plate.
Stems ==
  { <<"A", "B", "C", "1", "2", "3">>,
    <<"A", "1", "B", "2", "3", "4">>,
    <<"A", "B", "1", "2", "3", "4">>,
    <<"A", "B", "C", "D", "1", "2">>,
    <<"A", "1", "2", "B", "3", "4">>,
    <<"1", "2", "3", "A", "B", "C">>,
    <<"A", "B", "C", "1", "0", "0">>,
    <<"A", "B", "C", "0", "0", "0">>,
    <<"H", "E", "L", "L", "O">>,
    <<"A", "B", "1", "2">>,
    <<"A", "B", "C", "D", "E", "1", "2", "3", "4">> }

\* The text with the characters at the positions in S read as their look-alikes.
Confused(text, S) ==
  [i \in 1..Len(text) |->
     IF i \in S /\ HasPartner(text[i]) THEN Partner(text[i]) ELSE text[i]]

\* The sets of at most MaxConfusions positions of a text.
ConfusedPositions(text) ==
  {S \in SUBSET (1..Len(text)) : Cardinality(S) <= MaxConfusions}

\* The text in lower case.
Lower(text) ==
  [i \in 1..Len(text) |->
     IF \E j \in 1..Len(UpperCase) : UpperCase[j] = text[i]
     THEN LowerCase[CHOOSE j \in 1..Len(UpperCase) : UpperCase[j] = text[i]]
     ELSE text[i]]

\* The text with the characters in extra put after its first DashPosition ones.
Inserted(text, extra) ==
  SubSeq(text, 1, DashPosition) \o extra \o SubSeq(text, DashPosition + 1, Len(text))

Styles == {"plain", "lower", "space", "dot", "dashes", "newline", "padded"}

\* The ways an engine renders what it read.
Styled(text, style) ==
  CASE style = "plain"   -> text
    [] style = "lower"   -> Lower(text)
    [] style = "space"   -> Inserted(text, <<" ">>)
    [] style = "dot"     -> Inserted(text, <<".">>)
    [] style = "dashes"  -> Inserted(text, <<"-", "-">>)
    [] style = "newline" -> text \o <<"\n">>
    [] style = "padded"  -> <<" ">> \o text \o <<" ">>

\* The text with a "-" before its first character if 0 is in gaps and after
\* its i-th character for every i in gaps.
RECURSIVE DashedFrom(_, _, _)
DashedFrom(text, gaps, i) ==
  IF i > Len(text) THEN << >>
  ELSE <<text[i]>> \o (IF i \in gaps THEN <<"-">> ELSE << >>) \o DashedFrom(text, gaps, i + 1)

Dashed(text, gaps) == (IF 0 \in gaps THEN <<"-">> ELSE << >>) \o DashedFrom(text, gaps, 1)

\* The raw texts given to clean_text, format_plate and is_valid_peruvian_plate.
RawTexts ==
  UNION {{Styled(Confused(t, S), y) : S \in ConfusedPositions(t), y \in Styles} : t \in Stems}
  \cup UNION {{Dashed(t, g) : g \in SUBSET (0..Len(t))} : t \in Stems}

\* An OCR engine returns a text (readtext, image_to_string).
ReadText(text) ==
  /\ raw_text = << >>
  /\ lastOcr.op = "none"
  /\ raw_text' = text
  /\ UNCHANGED <<lastOcr, dedupVars, camVars, loopVars, calls>>

\* clean_text(text)
CleanTextCall ==
  /\ lastOcr' = [op |-> "clean_text", out |-> CleanText(raw_text)]
  /\ UNCHANGED <<raw_text, dedupVars, camVars, loopVars, calls>>

\* format_plate(text)
FormatPlateCall ==
  /\ lastOcr' = [op |-> "format_plate", out |-> FormatPlate(raw_text)]
  /\ UNCHANGED <<raw_text, dedupVars, camVars, loopVars, calls>>

\* is_valid_peruvian_plate(text)
IsValidPeruvianPlateCall ==
  /\ lastOcr' = [op |-> "is_valid_peruvian_plate", valid |-> IsValidPeruvianPlate(raw_text)]
  /\ UNCHANGED <<raw_text, dedupVars, camVars, loopVars, calls>>

NextOcr ==
  \/ \E text \in RawTexts : ReadText(text)
  \/ CleanTextCall
  \/ FormatPlateCall
  \/ IsValidPeruvianPlateCall

SpecOcr == Init /\ [][NextOcr]_vars

\* ------------------------------------------------------------ the claims

\* A call of add_plate_reading for a non-empty plate that reached a decision
\* without a store error.
Decided == lastCall.op = "add" /\ lastCall.path \in {"cache", "db", "insert"}

\* The rows of the key of the last call that were inserted before now.
EarlierRows ==
  {r \in plates : CacheKey(r.plate_text, r.camera_source) = lastCall.key /\ r.at < now}

\* The rows of the key of the last call.
KeyRows ==
  {r \in plates : CacheKey(r.plate_text, r.camera_source) = lastCall.key}

\* Every instant in the state falls on a whole second.
WholeSeconds ==
  /\ now % TicksPerSec = 0
  /\ \A r \in plates : r.at % TicksPerSec = 0
  /\ \A k \in DOMAIN plate_cache : plate_cache[k] % TicksPerSec = 0

\* C1: while the row of an accepted detection of (code, source) is in the
\* table, no later call for (code, source) less than the window after it is
\* accepted: two accepted records of a key are never less than the window apart.
C1_AcceptedApart ==
  (lastCall.op = "add" /\ lastCall.result) =>
    \A r \in EarlierRows : ~TotalSecondsBelow(now - r.at, deduplication_time)

\* C2: a call made a full window or more after the latest accepted (persisted)
\* detection of its (code, source) is accepted.  Stated for instants on whole
\* seconds, where the store's one-second resolution plays no part.
C2_AcceptedAfterWindow ==
  (Decided /\ WholeSeconds /\ KeyRows # {} /\
   \A r \in KeyRows : ~TotalSecondsBelow(now - r.at, deduplication_time))
    => lastCall.result

\* C3 as claimed: right after clear_dedup_cache(), the repeat of a detection
\* rejected just before the clear is accepted although the table still holds
\* its recent row.
C3_AcceptedAfterClear ==
  (Decided /\ lastCall.afterClear /\ lastCall.stored) => lastCall.result

\* C3 as amended: right after clear_dedup_cache(), the repeat of a detection
\* rejected just before the clear is rejected again whenever the table holds a
\* recent row of it: the clear empties plate_cache only and the table decides.
C3_RejectedAfterClear ==
  (lastCall.op = "add" /\ lastCall.afterClear /\ lastCall.stored) =>
    (~lastCall.result /\ lastCall.path \in {"db", "error"})

C3_Witness ==
  /\ lastCall.op = "add" /\ lastCall.afterClear /\ lastCall.stored
  /\ lastCall.path = "db"
  /\ lastCall.key \in DOMAIN plate_cache

\* C4: every call returns what a deduplicator deciding from the table alone
\* returns: rejected iff the table holds a recent row of (code, source).
\* Stated for instants on whole seconds.
C4_SameAsStoreAlone ==
  (Decided /\ WholeSeconds) => (lastCall.result = ~lastCall.stored)

\* C5: after a rejection decided by the table (the key was absent from
\* plate_cache), plate_cache holds for the key the timestamp of a recent row
\* of the table, not the time of the rejected call.
C5_BackfillIsRowTimestamp ==
  (lastCall.op = "add" /\ lastCall.path = "db") =>
    /\ lastCall.key \in DOMAIN plate_cache
    /\ \E r \in plates :
         /\ CacheKey(r.plate_text, r.camera_source) = lastCall.key
         /\ r.timestamp = Strftime(plate_cache[lastCall.key])

\* C6: select_source(s) called when s is the active source and its capture is
\* open returns success, releases nothing and constructs nothing; the handle
\* and the active source are the ones from before the call.
C6_SelectIdempotent ==
  (lastCam.op = "select" /\ lastCam.wasActive)
    => /\ lastCam.ret = TRUE
       /\ ~lastCam.released
       /\ ~lastCam.constructed
       /\ current_cap = lastCam.capBefore
       /\ active_source = lastCam.source
       /\ current_cap \in opened

\* A select of the source that was active and open has just returned.
C6_Witness ==
  /\ lastCam.op = "select"
  /\ lastCam.wasActive
  /\ lastCam.ret = TRUE
  /\ current_cap # NoCap

\* C8: a get_frame whose read failed made exactly one select_source call for
\* the same source and returned (False, None), whether or not that reselect
\* reopened the source.
C8_OneReselectThenFailure ==
  (lastCam.op = "get_frame" /\ lastCam.outcome \in {"fail", "fail_closed"})
    => /\ lastCam.calls = 1
       /\ lastCam.success = FALSE
       /\ lastCam.frame = NoFrame

\* A get_frame whose read failed has returned after a reselect that reopened
\* the source.
C8_Witness ==
  /\ lastCam.op = "get_frame"
  /\ lastCam.outcome = "fail_closed"
  /\ lastCam.constructed
  /\ current_cap \in opened
  /\ lastCam.success = FALSE

\* C7: in every reachable state at most one capture handle is open, whatever
\* the interleaving of start, stop and switch_camera with the loop.
C7_AtMostOneOpen == Cardinality(opened) <= 1

\* C9: a thread of the processing loop that has ended, for whatever reason,
\* has released the current source and emitted the terminal status_update.
C9_ExitReleasesAndNotifies ==
  \A t \in Threads :
    loops[t].pc \in {"done", "crashed"} => (loops[t].released /\ loops[t].notified)

\* C10: a step of the loop in which get_frame fails (its reselect included)
\* leaves the thread in the loop, on its way to the next iteration, and does
\* not change processing_active.
C10_ReadFailureNotFatal ==
  [][\A t \in Threads :
       (/\ loops[t].pc \in {"get", "reselect_end"}
        /\ loops'[t] # loops[t]
        /\ loops'[t].pc # "detect")
         => /\ loops'[t].pc \in {"check", "reselect_end"}
            /\ loops'[t].pc = "check" => loops'[t].failed # "no"
            /\ processing_active' = processing_active]_vars

\* A thread is back at the top of the loop after a get_frame that failed and
\* whose reselect did not reopen the source; the loop is still active.
C10_Witness ==
  \E t \in Threads :
    /\ loops[t].pc = "check"
    /\ loops[t].failed = "read"
    /\ processing_active
    /\ current_cap = NoCap
    /\ active_source = None

\* C11: a step of the loop in which the select_source of the desired source
\* fails, because the name is not configured or because the capture did not
\* open, sets processing_active to False and takes the thread out of the loop
\* body without reading a frame.
C11_SelectFailureEndsLoop ==
  [][\A t \in Threads :
       (/\ loops'[t] # loops[t]
        /\ \/ /\ loops[t].pc = "select"
              /\ active_source # active_camera_source
              /\ active_camera_source \notin CAMERA_SOURCES
           \/ /\ loops[t].pc = "select_end"
              /\ loops[t].cap \notin opened)
         => /\ loops'[t].pc = "exit"
            /\ loops'[t].failed = "select"
            /\ processing_active' = FALSE]_vars

\* A thread has left the loop body after a select_source that could not open
\* a configured source.
C11_Witness ==
  \E t \in Threads :
    /\ loops[t].pc = "exit"
    /\ loops[t].failed = "select"
    /\ active_camera_source \in CAMERA_SOURCES
    /\ ~processing_active
    /\ current_cap = NoCap

\* C13: at most one thread runs the processing loop at any time.
C13_AtMostOneLoop == Cardinality({t \in Threads : Alive(t)}) <= 1

\* C14: no failure of the model inference or of the OCR ends a thread of the
\* processing loop.
C14_RecognitionFailureNotFatal == \A t \in Threads : loops[t].pc # "crashed"

\* No thread runs the loop and no capture is open.
Idle ==
  /\ \A t \in Threads : ~Alive(t)
  /\ current_cap = NoCap
  /\ opened = {}

C15_NoEntryBeyondHorizon ==
  lastCall.op = "cleanup"
    => \A k \in DOMAIN plate_cache : now - plate_cache[k] <= SweepHorizon * TicksPerSec

\* The result of the last call is that of clean_text on raw_text.
Cleans == lastOcr.op = "clean_text"

\* The text, separators removed, matches one of the six patterns.
MatchesGrammar(text) ==
  \E k \in 1..Len(Patterns) : Matches(Patterns[k], RemoveSeparators(text))

\* C16: clean_text returns the empty string for every text whose cleaned form
\* is shorter than 5 or longer than 9 characters.
C16_OutOfRangeRejected ==
  (/\ Cleans
   /\ \/ Len(Cleaned(raw_text)) < MinCleanedLen
      \/ Len(Cleaned(raw_text)) > MaxCleanedLen)
    => lastOcr.out = Empty

\* clean_text has rejected a text that is a valid code spread over more than
\* 9 characters.
C16_Witness ==
  /\ Cleans
  /\ Len(Cleaned(raw_text)) > MaxCleanedLen
  /\ MatchesGrammar(raw_text)
  /\ lastOcr.out = Empty

\* C17 as stated: for every text that is_valid_peruvian_plate accepts,
\* clean_text returns what format_plate returns for it.
C17_ValidCodeOnlyFormatted ==
  (Cleans /\ IsValidPeruvianPlate(raw_text)) => lastOcr.out = FormatPlate(raw_text)

\* C17 amended: for every text that is_valid_peruvian_plate accepts and whose
\* cleaned form has at most 9 characters, clean_text returns what format_plate
\* returns for it.
C17_ValidCodeUpTo9OnlyFormatted ==
  (/\ Cleans
   /\ IsValidPeruvianPlate(raw_text)
   /\ Len(Cleaned(raw_text)) <= MaxCleanedLen)
    => lastOcr.out = FormatPlate(raw_text)

\* clean_text has formatted a valid code that a single-character correction
\* would have turned into another valid code.
C17_Witness ==
  /\ Cleans
  /\ IsValidPeruvianPlate(raw_text)
  /\ \E i \in 1..Len(Cleaned(raw_text)) :
       /\ HasPartner(Cleaned(raw_text)[i])
       /\ IsValidPeruvianPlate(Variation(Cleaned(raw_text), i))
  /\ lastOcr.out = FormatPlate(raw_text)
  /\ lastOcr.out # Empty

\* The variation of cleaned at position i validates.
ValidAt(cleaned, i) ==
  /\ HasPartner(cleaned[i])
  /\ MatchesGrammar(Variation(cleaned, i))
  /\ IsValidPeruvianPlate(Variation(cleaned, i))

\* The cleaned text is one that only a single-character correction validates.
SingleCharCase(cleaned) ==
  /\ Len(cleaned) >= MinCleanedLen
  /\ Len(cleaned) <= MaxCleanedLen
  /\ ~IsValidPeruvianPlate(cleaned)
  /\ \A k \in 1..Len(Corrections) :
       ~(/\ Contains(cleaned, Wrong(Corrections[k]))
         /\ IsValidPeruvianPlate(Replace(cleaned, Wrong(Corrections[k]), Right(Corrections[k]))))
  /\ \E i \in 1..Len(cleaned) : ValidAt(cleaned, i)

FirstValidPosition(cleaned) ==
  CHOOSE i \in 1..Len(cleaned) :
    ValidAt(cleaned, i) /\ \A j \in 1..(i - 1) : ~ValidAt(cleaned, j)

\* In the single-character case clean_text returns the formatted variation of
\* the leftmost position that validates.
SingleCharRule ==
  (Cleans /\ SingleCharCase(Cleaned(raw_text)))
    => lastOcr.out =
         FormatPlate(Variation(Cleaned(raw_text), FirstValidPosition(Cleaned(raw_text))))

C19_ResultIsGrammatical ==
  Cleans => (lastOcr.out = Empty \/ MatchesGrammar(lastOcr.out))

\* C19 amended: what clean_text returns is empty, or matches one of the six
\* patterns, or is a text of 5 to 8 characters of [A-Z0-9-] without "--".
C19_ResultIsGrammaticalOrFallback ==
  Cleans =>
    \/ lastOcr.out = Empty
    \/ MatchesGrammar(lastOcr.out)
    \/ /\ Len(lastOcr.out) >= MinCleanedLen
       /\ Len(lastOcr.out) <= MaxPlateLen
       /\ \A i \in 1..Len(lastOcr.out) : IsAllowed(lastOcr.out[i])
       /\ ~Contains(lastOcr.out, <<"-", "-">>)

\* clean_text has returned a text that matches none of the patterns.
C19_Witness ==
  /\ Cleans
  /\ lastOcr.out # Empty
  /\ ~MatchesGrammar(lastOcr.out)
  /\ lastOcr.out = Cleaned(raw_text)

\* The 6 characters with a "-" after the third.
WithDash(clean) ==
  SubSeq(clean, 1, DashPosition) \o <<"-">> \o SubSeq(clean, DashPosition + 1, Len(clean))

DashShape(clean) == Matches(Patterns[1], clean) \/ Matches(Patterns[2], clean)

\* C20 as stated: format_plate of a valid text returns XXX-XXX for the two
\* dashed shapes and the text as it was given for the other shapes.
C20_FormatOrUnchanged ==
  (lastOcr.op = "format_plate" /\ IsValidPeruvianPlate(raw_text))
    => lastOcr.out = IF DashShape(RemoveSeparators(raw_text))
                     THEN WithDash(RemoveSeparators(raw_text))
                     ELSE raw_text

\* C20 amended: format_plate of a valid text returns XXX-XXX for the two
\* dashed shapes and the text without its separators for the other shapes.
C20_FormatOrSeparatorFree ==
  (lastOcr.op = "format_plate" /\ IsValidPeruvianPlate(raw_text))
    => lastOcr.out = IF DashShape(RemoveSeparators(raw_text))
                     THEN WithDash(RemoveSeparators(raw_text))
                     ELSE RemoveSeparators(raw_text)

\* format_plate has returned a valid text of another shape, given with
\* separators, without them.
C20_Witness ==
  /\ lastOcr.op = "format_plate"
  /\ IsValidPeruvianPlate(raw_text)
  /\ ~DashShape(RemoveSeparators(raw_text))
  /\ raw_text # RemoveSeparators(raw_text)
  /\ lastOcr.out = RemoveSeparators(raw_text)

\* Neither the cleaned text nor any correction of it validates.
NothingValidates(cleaned) ==
  /\ ~MatchesGrammar(cleaned)
  /\ \A k \in 1..Len(Corrections) :
       ~(/\ Contains(cleaned, Wrong(Corrections[k]))
         /\ MatchesGrammar(Replace(cleaned, Wrong(Corrections[k]), Right(Corrections[k]))))
  /\ \A i \in 1..Len(cleaned) : ~ValidAt(cleaned, i)

\* C21: when nothing validates, clean_text returns the cleaned text if it has
\* 5 to 8 characters and the empty string if it has 9.
C21_Fallback ==
  (/\ Cleans
   /\ Len(Cleaned(raw_text)) >= MinCleanedLen
   /\ Len(Cleaned(raw_text)) <= MaxCleanedLen
   /\ NothingValidates(Cleaned(raw_text)))
    => lastOcr.out = IF Len(Cleaned(raw_text)) <= MaxPlateLen THEN Cleaned(raw_text) ELSE Empty

\* clean_text has rejected a cleaned text of 9 characters that nothing validates.
C21_Witness ==
  /\ Cleans
  /\ Len(Cleaned(raw_text)) = MaxCleanedLen
  /\ NothingValidates(Cleaned(raw_text))
  /\ lastOcr.out = Empty

\* The request asked for an integer number of seconds within the range.
WellFormed(call) == call.integer /\ call.inRange

\* C22: the window starts at 30 and is always an integer within [5, 300]; a
\* settings request whose value is out of range or not an integer is refused
\* and leaves the window unchanged.
C22_WindowInRange ==
  /\ deduplication_time = DefaultWindow
  /\ [][/\ deduplication_time' \in WindowMin..WindowMax
        /\ (lastCall'.op = "settings" /\ ~WellFormed(lastCall'))
             => (~lastCall'.success /\ deduplication_time' = deduplication_time)
        /\ deduplication_time' # deduplication_time
             => (/\ lastCall'.op = "settings"
                 /\ lastCall'.success
                 /\ WellFormed(lastCall'))]_vars

\* A request carrying a non-integer 30 has been refused while the window,
\* changed earlier, is not 30.
C22_Witness ==
  /\ lastCall.op = "settings"
  /\ ~lastCall.integer /\ lastCall.inRange
  /\ ~lastCall.success
  /\ deduplication_time = WindowMax

\* C23: when the store fails during add_plate_reading for a key the cache
\* does not reject, the call returns True (the detection counts as accepted).
C23_StoreFailureAccepts ==
  (lastCall.op = "add" /\ lastCall.path = "error") => lastCall.result

\* C25: clear_dedup_cache leaves plate_cache empty and the plates table as it was.
C25_ClearLeavesStore ==
  [][lastCall'.op = "clear" => (plate_cache' = << >> /\ plates' = plates)]_vars

\* The cache has been cleared right after it rejected a plate, the table
\* holding rows.
C25_Witness ==
  /\ lastCall.op = "clear"
  /\ lastCall.key # None
  /\ plate_cache = << >>
  /\ plates # {}

\* select_source has just been called for a configured source that was not
\* already active and open, and whose endpoint cannot be opened.
SelectedUnopenable ==
  /\ lastCam.op = "select"
  /\ lastCam.source \in CAMERA_SOURCES
  /\ lastCam.source \notin reachable
  /\ ~lastCam.wasActive

C29_UnknownReleasesFirst ==
  (/\ lastCam.op = "select"
   /\ lastCam.source \notin CAMERA_SOURCES
   /\ lastCam.capBefore # NoCap)
    => (/\ ~lastCam.ret
        /\ lastCam.released
        /\ current_cap = NoCap
        /\ active_source = None)

\* C30: the select_source that get_frame calls after a failed read releases
\* the current capture and constructs a new one for the same source, also
\* when the failing capture still reports itself open.
C30_ReselectReopens ==
  (lastCam.op = "get_frame" /\ lastCam.outcome \in {"fail", "fail_closed"})
    => (lastCam.calls = 1 /\ lastCam.released /\ lastCam.constructed)

\* C27: within one iteration the source named in the dedup key and in the
\* record to emit is the source the frame was captured from, also when a
\* switch arrives between the capture and add_plate_reading.
C27_RecordNamesFrameSource ==
  \A t \in Threads :
    \A i \in 1..Len(loops[t].added) : loops[t].added[i].camera = loops[t].frame

\* The loop runs with a source open and the requested source is another one:
\* a switch to s has arrived and has not taken effect yet.
SwitchPending(s) ==
  /\ processing_active
  /\ \E t \in Threads : Alive(t)
  /\ active_source # None /\ current_cap \in opened
  /\ active_camera_source = s
  /\ active_source # s

\* The manager holds the configured source s open and the loop's thread is
\* still running.
Switched(s) ==
  /\ s \in CAMERA_SOURCES
  /\ \E t \in Threads : Alive(t)
  /\ active_source = s
  /\ current_cap # NoCap /\ current_cap \in opened

\* C28: a switch to another source while the loop runs leads to the loop
\* holding that source open (the old one released) while still running, or,
\* when the source is not configured or cannot be opened, to Idle with no
\* source open; unless a later command asks for yet another source.
C28_SwitchTakesEffect ==
  \A s \in SourceNames :
    SwitchPending(s) ~> (\/ Switched(s)
                         \/ Idle
                         \/ active_camera_source # s)

\* C26: whatever the interleaving of clear_dedup_cache and get_cache_stats in
\* a request with add_plate_reading in the loop, no call fails on the cache:
\* neither on an entry gone between `in` and the read, nor in the sweep.
C26_NoFailureOnCache == \A c \in Callers : calls[c].pc # "raised"

\* The k-th entry of the table occurs in cleaned and its replacement, applied
\* to cleaned throughout, matches the grammar.
CorrectionValidates(cleaned, k) ==
  /\ Contains(cleaned, Wrong(Corrections[k]))
  /\ MatchesGrammar(Replace(cleaned, Wrong(Corrections[k]), Right(Corrections[k])))

\* The cleaned text does not validate and some entry of the table validates it.
MultiCharCase(cleaned) ==
  /\ Len(cleaned) >= MinCleanedLen
  /\ Len(cleaned) <= MaxCleanedLen
  /\ ~MatchesGrammar(cleaned)
  /\ \E k \in 1..Len(Corrections) : CorrectionValidates(cleaned, k)

FirstCorrection(cleaned) ==
  CHOOSE k \in 1..Len(Corrections) :
    CorrectionValidates(cleaned, k) /\ \A j \in 1..(k - 1) : ~CorrectionValidates(cleaned, j)

\* The k-th entry applied to cleaned, formatted.
Corrected(cleaned, k) ==
  FormatPlate(Replace(cleaned, Wrong(Corrections[k]), Right(Corrections[k])))

\* C31: when the cleaned text does not validate, clean_text returns the
\* formatted result of the first table entry, in table order, whose
\* replacement of every occurrence in the cleaned text validates; a
\* single-character variation is returned only if no entry validates.
C31_TableBeforeVariations ==
  (Cleans /\ MultiCharCase(Cleaned(raw_text)))
    => lastOcr.out = Corrected(Cleaned(raw_text), FirstCorrection(Cleaned(raw_text)))

\* clean_text has returned the result of the first entry for a text that a
\* later entry validates too, with another result, and that a single-character
\* variation validates as well.
C31_Witness ==
  /\ Cleans
  /\ MultiCharCase(Cleaned(raw_text))
  /\ \E j, k \in 1..Len(Corrections) :
       /\ j < k
       /\ CorrectionValidates(Cleaned(raw_text), j)
       /\ CorrectionValidates(Cleaned(raw_text), k)
       /\ Corrected(Cleaned(raw_text), j) # Corrected(Cleaned(raw_text), k)
       /\ lastOcr.out = Corrected(Cleaned(raw_text), j)
  /\ \E i \in 1..Len(Cleaned(raw_text)) : ValidAt(Cleaned(raw_text), i)

C33_ActiveMeansLoopAlive ==
  (processing_active /\ \A h \in Handlers : handlers[h].pc = "idle")
    => \E t \in Threads : Alive(t)

\* C34: a start command that finds processing active changes nothing: neither
\* the requested source, nor the flag, nor the thread, nor the camera
\* manager, nor the loop, also when it names another source.
C34_StartWhileActiveIgnored ==
  [][(\E h \in Handlers : handlers'[h].pc = "ignored" /\ handlers[h].pc = "idle")
       => (/\ processing_active /\ processing_active'
           /\ active_camera_source' = active_camera_source
           /\ processing_thread' = processing_thread
           /\ loops' = loops
           /\ <<active_source, current_cap, opened>>' = <<active_source, current_cap, opened>>)]_vars

\* A start naming another source has been ignored while the loop holds the
\* requested source open.
C34_Witness ==
  \E h \in Handlers :
    /\ handlers[h].pc = "ignored"
    /\ handlers[h].src # active_camera_source
    /\ processing_active
    /\ \E t \in Threads : Alive(t)
    /\ active_source = active_camera_source
    /\ current_cap # NoCap /\ current_cap \in opened

\* C35: every rejection of a non-empty plate that is not a store error is
\* backed by the table: a row of the same plate and source newer than the
\* window exists when add_plate_reading returns False.
C35_RejectionBackedByStore ==
  (lastCall.op = "add" /\ ~lastCall.result /\ lastCall.path \in {"cache", "db"})
    => lastCall.stored

\* C36: deduplication is per source.  A rejected (plate_text, camera_source)
\* has a row of that same plate and that same source, whatever was accepted or
\* rejected on other sources, and every key of the cache stands for exactly
\* one (plate_text, camera_source) pair.
C36_PerSource ==
  /\ (lastCall.op = "add" /\ ~lastCall.result /\ lastCall.path \in {"cache", "db"})
       => \E r \in plates : /\ r.plate_text = lastCall.plate_text
                            /\ r.camera_source = lastCall.camera_source
  /\ \A k \in DOMAIN plate_cache :
       Cardinality({pair \in KeyPlateTexts \X SourceNames :
                      CacheKey(pair[1], pair[2]) = k}) = 1

\* A code is accepted on one source while the cache holds a fresh entry of
\* the same code on another source.
C36_Witness ==
  /\ lastCall.op = "add" /\ lastCall.result
  /\ \E s \in CAMERA_SOURCES \ {lastCall.camera_source} :
       LET k == CacheKey(lastCall.plate_text, s)
       IN  /\ k \in DOMAIN plate_cache
           /\ TotalSecondsBelow(now - plate_cache[k], deduplication_time)

\* C37: within one iteration the list of newly added plates holds a code at
\* most once, however many detections of the frame carry it.
C37_OncePerIteration ==
  \A t \in Threads :
    \A i, j \in 1..Len(loops[t].added) :
      i < j => loops[t].added[i].plate # loops[t].added[j].plate

\* The capture handle of the requested source no longer reports itself open
\* while the manager still names that source as active and the loop runs.
HandleLost ==
  /\ processing_active
  /\ \E t \in Threads : Alive(t)
  /\ active_source \in CAMERA_SOURCES
  /\ active_source = active_camera_source
  /\ current_cap # NoCap /\ current_cap \notin opened

\* C38: a lost capture handle leads to the manager holding an open handle
\* again (the step without which no frame can be obtained), unless the loop
\* is stopped, its thread has ended or another source is requested in the
\* meantime.
C38_LostHandleRecovers ==
  HandleLost ~> (\/ current_cap # NoCap /\ current_cap \in opened
                 \/ ~processing_active
                 \/ ~\E t \in Threads : Alive(t)
                 \/ active_camera_source # active_source)

====
